---- MODULE Spec2Model ----
(***************************************************************************)
(* Model of cerebunit's SomaRinTest (validate_observation,                 *)
(* generate_prediction, compute_score) and of ZScoreForSignTest.compute.   *)
(*                                                                         *)
(* Python values are represented as follows.                               *)
(*   dict        a function whose DOMAIN is the set of keys                *)
(*   str object  [s |-> characters, id |-> object identity]; `==` compares *)
(*               s, `is` compares s and id ("lit" is the interned literal  *)
(*               of the module, "heap" a string built at run time, e.g. by *)
(*               json.load)                                                *)
(*   Quantity    [mag |-> magnitude, units |-> unit tag]                   *)
(*   z value     [kind |-> "float", num, den] standing for num/sqrt(den),  *)
(*               or [kind |-> "nan"] (numpy 0.0/0.0)                       *)
(*   call result [kind |-> "return", value |-> v] or                       *)
(*               [kind |-> "raise", exc |-> exception class]               *)
(*                                                                         *)
(* Lines 95 and 137 of test_for_soma_Rin.py do not parse as written        *)
(* (`"current_unit": not in ...`, a dict closed by `]`); they are read as  *)
(* `"current_unit" not in ...` and as a closed dict.  The attributes       *)
(* observation and datacond of an instance are taken to be unset until     *)
(* validate_observation assigns them, the only assignments in the file.    *)
(***************************************************************************)
EXTENDS Integers, Sequences, FiniteSets, TLC

VARIABLES
  record,            \* the caller's observation dict (one object)
  input,             \* that dict as the caller built it, before any call
  self_observation,  \* self.observation: "unset" or a reference to record
  datacond,          \* self.datacond: "unset", "True" or "False"
  score_type,        \* self.score_type
  prediction,        \* value last returned by generate_prediction
  score,             \* Score last returned by compute_score
  launches,          \* number of ExecutiveControl.launch_model calls
  last,              \* the last method call and how it ended
  z_raw,             \* observation["raw_data"] given to ZScoreForSignTest.compute
  z_pred,            \* prediction given to ZScoreForSignTest.compute
  z_out              \* result of that call

vars == <<record, input, self_observation, datacond, score_type, prediction,
          score, launches, last, z_raw, z_pred, z_out>>

orchVars == <<record, input, self_observation, datacond, score_type,
              prediction, score, launches, last>>
zVars == <<z_raw, z_pred, z_out>>

(***************************************************************************)
(* Bounds                                                                  *)
(***************************************************************************)
ZMaxLen == 3        \* longest raw_data / prediction sequence of the sign test
ZMaxVal == 3        \* sample values of the sign test are 1..ZMaxVal
MaxLen == 2         \* longest raw_data of an observation record
MaxVal == 2         \* sample values of an observation record are 1..MaxVal
MaxMissing == 1     \* required keys missing at once, per dict
MaxLaunches == 2    \* model executions per test instance

Return(v) == [kind |-> "return", value |-> v]
Raise(e) == [kind |-> "raise", exc |-> e]

RECURSIVE SeqsOfLen(_, _)
SeqsOfLen(n, S) ==
  IF n = 0 THEN {<<>>}
  ELSE {Append(s, x) : s \in SeqsOfLen(n - 1, S), x \in S}

SeqsUpTo(n, S) == UNION {SeqsOfLen(k, S) : k \in 0..n}

RECURSIVE CountIf(_, _, _)
\* numpy (mask).sum(): number of True entries of an elementwise comparison
CountIf(data, null, below) ==
  IF Len(data) = 0 THEN 0
  ELSE (IF (below /\ Head(data) < null) \/ (~below /\ Head(data) # null)
        THEN 1 ELSE 0) + CountIf(Tail(data), null, below)

(***************************************************************************)
(* ZScoreForSignTest.compute                                               *)
(***************************************************************************)
\* type(prediction) is float or type(prediction) is int
IsScalarType(p) == p.type \in {"float", "int"}

\* data - np.array(prediction), with numpy broadcasting; a 0-d prediction
\* (a scalar Quantity) broadcasts over data
PairedDifference(data, p) ==
  IF p.type # "list"
    THEN Return([i \in 1..Len(data) |-> data[i] - p.v])
  ELSE IF Len(p.v) = Len(data)
    THEN Return([i \in 1..Len(data) |-> data[i] - p.v[i]])
  ELSE IF Len(p.v) = 1
    THEN Return([i \in 1..Len(data) |-> data[i] - p.v[1]])
  ELSE IF Len(data) = 1
    THEN Return([i \in 1..Len(p.v) |-> data[1] - p.v[i]])
  ELSE Raise("ValueError")

\* (splus - (n_u/2)) / np.sqrt(n_u/4) in float64: 0.0/0.0 is nan,
\* otherwise (2*splus - n_u) / sqrt(n_u)
ZStatistic(splus, n_u) ==
  IF n_u = 0 THEN [kind |-> "nan"]
  ELSE [kind |-> "float", num |-> 2 * splus - n_u, den |-> n_u]

\* names bound inside compute: its parameters, its locals, the module globals
ComputeScope == {"cls", "observation", "prediction", "data", "splus", "n_u",
                 "np", "sciunit", "ZScoreForSignTest"}

\* the statistic the right-hand side of line 82 evaluates to
ZRightHandSide(raw, p) ==
  LET diff == IF IsScalarType(p) THEN Return(raw) ELSE PairedDifference(raw, p)
      null == IF IsScalarType(p) THEN p.v ELSE 0
  IN IF diff.kind = "raise" THEN diff
     ELSE Return(ZStatistic(CountIf(diff.value, null, TRUE),
                            CountIf(diff.value, null, FALSE)))

\* compute(cls, observation, prediction), raw = np.array(observation["raw_data"]):
\* the assignment target of line 82 is `self.score`, and `self` must be looked
\* up after the right-hand side is evaluated
ZScoreCompute(raw, p) ==
  LET rhs == ZRightHandSide(raw, p)
  IN IF rhs.kind = "raise" THEN rhs
     ELSE IF "self" \notin ComputeScope THEN Raise("NameError")
     ELSE rhs

(***************************************************************************)
(* Inputs of the sign test                                                 *)
(***************************************************************************)
ExampleRaw == <<10, 12, 9, 15, 11>>
ExamplePaired == <<11, 11, 11, 11, 11>>

ZRawDatas == SeqsUpTo(ZMaxLen, 1..ZMaxVal) \cup {ExampleRaw}

ZScalarPredictions ==
  {[type |-> t, v |-> x] : t \in {"float", "int"}, x \in (0..(ZMaxVal + 1)) \cup {12}}
  \cup {[type |-> "Quantity", v |-> x] : x \in 1..ZMaxVal}

ZSequencePredictions ==
  {[type |-> "list", v |-> s] : s \in SeqsUpTo(ZMaxLen, 1..ZMaxVal) \cup {ExamplePaired}}

ZNotCalled == [kind |-> "none"]

(***************************************************************************)
(* Python values used by SomaRinTest                                       *)
(***************************************************************************)
Str(s, id) == [s |-> s, id |-> id]

\* a string literal of the module source (interned by the compiler)
Literal(s) == Str(s, "lit")

\* `x is not "..."`: identity with the literal's object, not equality
IsNot(x, s) == ~(x.s = s /\ x.id = "lit")

\* pq.Quantity(magnitude, units=tag)
Quantity(m, u) == [mag |-> m, units |-> u.s]

\* d[k] = v
DictSet(d, k, v) == [x \in DOMAIN d \cup {k} |-> IF x = k THEN v ELSE d[x]]

Restrict(d, K) == [k \in K |-> d[k]]

\* the factor of lines 100-104
MohmToOhm == 1000000

RECURSIVE Insert(_, _)
Insert(x, s) ==
  IF Len(s) = 0 THEN <<x>>
  ELSE IF x <= Head(s) THEN <<x>> \o s
  ELSE <<Head(s)>> \o Insert(x, Tail(s))

RECURSIVE Sorted(_)
Sorted(s) == IF Len(s) = 0 THEN <<>> ELSE Insert(Head(s), Sorted(Tail(s)))

\* numpy.median: middle of the sorted values, mean of the two middle ones for
\* an even count, nan for no values
Median(q) ==
  LET s == Sorted(q.mag)
      n == Len(s)
  IN IF n = 0 THEN [kind |-> "nan"]
     ELSE IF n % 2 = 1 THEN [kind |-> "Quantity", mag |-> s[(n + 1) \div 2], units |-> q.units]
     ELSE [kind |-> "Quantity", mag |-> (s[n \div 2] + s[n \div 2 + 1]) \div 2, units |-> q.units]

(***************************************************************************)
(* SomaRinTest.validate_observation                                        *)
(***************************************************************************)
\* the condition of lines 85-96, with Python's short-circuit `or`
ValidationRaises(observation) ==
  \/ "mean" \notin DOMAIN observation
  \/ "SD" \notin DOMAIN observation
  \/ "sample_size" \notin DOMAIN observation
  \/ "units" \notin DOMAIN observation
  \/ IsNot(observation["units"], "Mohm")
  \/ "raw_data" \notin DOMAIN observation
  \/ "protocol_parameters" \notin DOMAIN observation
  \/ "temperature" \notin DOMAIN observation["protocol_parameters"]
  \/ "initial_resting_Vm" \notin DOMAIN observation["protocol_parameters"]
  \/ "current_amplitude" \notin DOMAIN observation["protocol_parameters"]
  \/ "current_unit" \notin DOMAIN observation["protocol_parameters"]
  \/ IsNot(observation["protocol_parameters"]["current_unit"], "nA")

\* variant: the standard error taken from the SD in Mohm, tagged as ohm
StandardErrorOfUnscaledSD(sd, n, u) ==
  [mag |-> [sd |-> sd.mag \div MohmToOhm, n |-> n], units |-> u.s, sd_units |-> sd.units]

\* observation["SD"] / numpy.sqrt(observation["sample_size"]) rewrapped with
\* units=observation["units"]; the magnitude sd/sqrt(n) is kept as the pair
StandardError(sd, n, u) ==
  [mag |-> [sd |-> sd.mag, n |-> n], units |-> u.s, sd_units |-> sd.units]

\* lines 98-119: the dict after a validation that did not raise, dc being the
\* answer of NecessaryForHTMeans.ask; self.observation and observation are the
\* same dict, so every read sees the writes before it
Validated(observation, dc) ==
  LET o1 == DictSet(observation, "units", Literal("ohm"))
      o2 == DictSet(o1, "mean", Quantity(o1["mean"] * MohmToOhm, o1["units"]))
      o3 == DictSet(o2, "SD", Quantity(o2["SD"] * MohmToOhm, o2["units"]))
      o4 == DictSet(o3, "raw_data",
                    Quantity([i \in 1..Len(o3["raw_data"]) |-> o3["raw_data"][i] * MohmToOhm],
                             o3["units"]))
      o5 == IF dc
            THEN DictSet(o4, "standard_error",
                         StandardError(o4["SD"], o4["sample_size"], o4["units"]))
            ELSE DictSet(o4, "median", Median(o4["raw_data"]))
      o6 == DictSet(o5, "celsius", o5["protocol_parameters"]["temperature"])
      o7 == DictSet(o6, "v_init", o6["protocol_parameters"]["initial_resting_Vm"])
  IN DictSet(o7, "amp", o7["protocol_parameters"]["current_amplitude"])

\* lines 108-114
ScoreTypeFor(dc) == IF dc THEN "TScore" ELSE "ZScore"

PyBool(b) == IF b THEN "True" ELSE "False"

(***************************************************************************)
(* Observation dicts a caller can hand over                                *)
(***************************************************************************)
TopKeys == {"mean", "SD", "sample_size", "units", "raw_data", "protocol_parameters"}
PPKeys == {"temperature", "initial_resting_Vm", "current_amplitude", "current_unit"}
ExtraKeys == {"median", "standard_error"}

UnitStrings == {Literal("Mohm"), Str("Mohm", "heap"), Literal("ohm")}
CurrentUnitStrings == {Literal("nA"), Str("nA", "heap"), Literal("mA")}

MissingSets == {M \in SUBSET (TopKeys \cup PPKeys) : Cardinality(M) <= MaxMissing}

FullObservation(m, sd, n, u, raw, cu, M) ==
  [mean |-> m, SD |-> sd, sample_size |-> n, units |-> u, raw_data |-> raw,
   protocol_parameters |->
     Restrict([temperature |-> 37, initial_resting_Vm |-> 0 - 65,
               current_amplitude |-> 1, current_unit |-> cu], PPKeys \ M),
   median |-> 0, standard_error |-> 0]

\* every required key present: the numbers, the two unit strings and the
\* extra keys vary
CompleteObservations ==
  {Restrict(FullObservation(m, sd, n, u, raw, cu, {}), TopKeys \cup E) :
     m \in 1..MaxVal, sd \in 1..MaxVal, n \in 1..MaxLen, u \in UnitStrings,
     raw \in SeqsUpTo(MaxLen, 1..MaxVal), cu \in CurrentUnitStrings,
     E \in {{}, ExtraKeys}}

\* some required keys missing
IncompleteObservations ==
  {Restrict(FullObservation(1, 1, 1, u, raw, Literal("nA"), M), TopKeys \ M) :
     u \in UnitStrings, raw \in SeqsUpTo(MaxLen, 1..MaxVal),
     M \in MissingSets \ {{}}}

Observations == CompleteObservations \cup IncompleteObservations

(***************************************************************************)
(* Collaborators whose code is outside this file                           *)
(***************************************************************************)
\* TScore.compute: t = (mean - prediction) / standard_error, kept as the
\* numerator and the standard error; dimensionless when the three unit tags agree
TScoreCompute(observation, p) ==
  IF "mean" \notin DOMAIN observation \/ "standard_error" \notin DOMAIN observation
  THEN Raise("ContractViolation")
  ELSE Return([kind |-> "t",
               num |-> observation["mean"].mag - p.v,
               se |-> observation["standard_error"].mag,
               dimensionless |-> /\ observation["mean"].units = p.units
                                 /\ observation["standard_error"].units = p.units
                                 /\ observation["standard_error"].sd_units = p.units])

\* HtestAboutMeans(observation, prediction, x): outcome and statistics
HtestAboutMeans(observation, p, x) ==
  [outcome |-> [test |-> "HtestAboutMeans", statistic |-> x],
   statistics |-> [test |-> "HtestAboutMeans", null_value |-> p]]

\* HtestAboutMedians(observation, prediction, x): outcome and statistics
HtestAboutMedians(observation, p, x) ==
  [outcome |-> [test |-> "HtestAboutMedians", statistic |-> x],
   statistics |-> [test |-> "HtestAboutMedians", null_value |-> p]]

\* values model.prediction can hold after ExecutiveControl.launch_model
ModelPredictions == {x * MohmToOhm : x \in 1..MaxVal}

(***************************************************************************)
(* SomaRinTest.generate_prediction                                         *)
(***************************************************************************)
\* lines 132-137 read self.observation["celsius"], ["v_init"], ["amp"] before
\* the model is launched
PredictionSetupResult(selfobs, observation) ==
  IF selfobs = "unset" THEN Raise("AttributeError")
  ELSE IF {"celsius", "v_init", "amp"} \subseteq DOMAIN observation
    THEN Return([celsius |-> observation["celsius"],
                 v_init |-> observation["v_init"],
                 amp |-> observation["amp"]])
  ELSE Raise("KeyError")

\* lines 147-148: pq.Quantity(numpy.mean(model.prediction), units=...)
PredictionValue(observation, out) ==
  [type |-> "Quantity", v |-> out, units |-> observation["units"].s]

(***************************************************************************)
(* SomaRinTest.compute_score                                               *)
(***************************************************************************)
\* TScore(x) / ZScore(x) with description and statistics attached
ScoreRecord(class, x, hypoT) ==
  [kind |-> "Score", class |-> class, score |-> x,
   description |-> hypoT.outcome, statistics |-> hypoT.statistics]

\* variant: datacond defaults to a class attribute that is not True, and the
\* else branch scores the prediction as it is
ComputeScoreWithDefaultDatacond(dc, observation, p) ==
  IF dc = "True"
    THEN LET x == TScoreCompute(observation, p)
         IN IF x.kind = "raise" THEN x
            ELSE Return(ScoreRecord("TScore", x.value,
                                    HtestAboutMeans(observation, p, x.value)))
  ELSE Return(ScoreRecord("ZScore", [kind |-> "nan"],
                          HtestAboutMedians(observation, p, [kind |-> "nan"])))

\* lines 160-174; self.datacond is an instance attribute that exists only
\* once validate_observation has assigned it
ComputeScoreResult(dc, observation, p) ==
  IF dc = "unset" THEN Raise("AttributeError")
  ELSE IF dc = "True"
    THEN LET x == TScoreCompute(observation, p)
         IN IF x.kind = "raise" THEN x
            ELSE Return(ScoreRecord("TScore", x.value,
                                    HtestAboutMeans(observation, p, x.value)))
  ELSE LET x == IF "raw_data" \in DOMAIN observation
                THEN ZScoreCompute(observation["raw_data"].mag, p)
                ELSE Raise("KeyError")
       IN IF x.kind = "raise" THEN x
          ELSE Return(ScoreRecord("ZScore", x.value,
                                  HtestAboutMedians(observation, p, x.value)))

\* predictions a caller can pass to compute_score: the one generate_prediction
\* returned, or a number of its own
ScoreArguments ==
  (IF prediction.type = "none" THEN {} ELSE {prediction})
  \cup {[type |-> "float", v |-> x * MohmToOhm, units |-> ""] : x \in 1..MaxVal}

(***************************************************************************)
(* The test instance as a state machine: any method may be called at any   *)
(* time                                                                    *)
(***************************************************************************)
Called(op, result) ==
  [op |-> op, kind |-> result.kind,
   exc |-> IF result.kind = "raise" THEN result.exc ELSE "none"]

NoPrediction == [type |-> "none"]
NoScore == [kind |-> "none"]

\* variant: a rejected observation also resets the instance
validate_observation_resetting ==
  \E dc \in BOOLEAN :
    IF ValidationRaises(record)
    THEN /\ last' = Called("validate_observation", Raise("ObservationError"))
         /\ datacond' = "unset"
         /\ score_type' = "NoneScore"
         /\ UNCHANGED <<record, input, self_observation,
                        prediction, score, launches, zVars>>
    ELSE /\ record' = Validated(record, dc)
         /\ self_observation' = "record"
         /\ datacond' = PyBool(dc)
         /\ score_type' = ScoreTypeFor(dc)
         /\ last' = Called("validate_observation", Return("None"))
         /\ UNCHANGED <<input, prediction, score, launches, zVars>>

validate_observation ==
  \E dc \in BOOLEAN :
    IF ValidationRaises(record)
    THEN /\ last' = Called("validate_observation", Raise("ObservationError"))
         /\ UNCHANGED <<record, input, self_observation, datacond, score_type,
                        prediction, score, launches, zVars>>
    ELSE /\ record' = Validated(record, dc)
         /\ self_observation' = "record"
         /\ datacond' = PyBool(dc)
         /\ score_type' = ScoreTypeFor(dc)
         /\ last' = Called("validate_observation", Return("None"))
         /\ UNCHANGED <<input, prediction, score, launches, zVars>>

\* variant: the model is launched before self.observation is read
generate_prediction_launching_first ==
  /\ launches < MaxLaunches
  /\ launches' = launches + 1
  /\ LET setup == PredictionSetupResult(self_observation, record)
     IN IF setup.kind = "raise"
        THEN /\ last' = Called("generate_prediction", setup)
             /\ UNCHANGED prediction
        ELSE \E launched \in BOOLEAN, out \in ModelPredictions :
               IF ~launched
               THEN /\ last' = Called("generate_prediction", Raise("ModelError"))
                    /\ UNCHANGED prediction
               ELSE /\ prediction' = PredictionValue(record, out)
                    /\ last' = Called("generate_prediction", Return("prediction"))
  /\ UNCHANGED <<record, input, self_observation, datacond, score_type,
                 score, zVars>>

generate_prediction ==
  /\ launches < MaxLaunches
  /\ LET setup == PredictionSetupResult(self_observation, record)
     IN IF setup.kind = "raise"
        THEN /\ last' = Called("generate_prediction", setup)
             /\ UNCHANGED <<record, input, self_observation, datacond, score_type,
                            prediction, score, launches, zVars>>
        ELSE /\ launches' = launches + 1
             /\ \E launched \in BOOLEAN, out \in ModelPredictions :
                  IF ~launched
                  THEN /\ last' = Called("generate_prediction", Raise("ModelError"))
                       /\ UNCHANGED prediction
                  ELSE /\ prediction' = PredictionValue(record, out)
                       /\ last' = Called("generate_prediction", Return("prediction"))
             /\ UNCHANGED <<record, input, self_observation, datacond, score_type,
                            score, zVars>>

\* variant: scoring asks the data condition again
compute_score_recomputing ==
  \E p \in ScoreArguments, dc \in {"True", "False"} :
    LET result == ComputeScoreResult(datacond, record, p)
    IN /\ last' = Called("compute_score", result)
       /\ score' = IF result.kind = "return" THEN result.value ELSE score
       /\ datacond' = IF datacond = "unset" THEN datacond ELSE dc
       /\ UNCHANGED <<record, input, self_observation, score_type,
                      prediction, launches, zVars>>

compute_score ==
  \E p \in ScoreArguments :
    LET result == ComputeScoreResult(datacond, record, p)
    IN /\ last' = Called("compute_score", result)
       /\ score' = IF result.kind = "return" THEN result.value ELSE score
       /\ UNCHANGED <<record, input, self_observation, datacond, score_type,
                      prediction, launches, zVars>>

Init ==
  /\ record \in Observations
  /\ input = record
  /\ self_observation = "unset"
  /\ datacond = "unset"
  /\ score_type = "NoneScore"
  /\ prediction = NoPrediction
  /\ score = NoScore
  /\ launches = 0
  /\ last = [op |-> "construct", kind |-> "return", exc |-> "none"]
  /\ z_raw = <<>>
  /\ z_pred = [type |-> "float", v |-> 0]
  /\ z_out = ZNotCalled

Next == validate_observation \/ generate_prediction \/ compute_score

Spec == Init /\ [][Next]_vars

(***************************************************************************)
(* ZScoreForSignTest.compute applied to bounded inputs                     *)
(***************************************************************************)
compute ==
  /\ z_out = ZNotCalled
  /\ z_out' = ZScoreCompute(z_raw, z_pred)
  /\ UNCHANGED <<z_raw, z_pred, orchVars>>

InitZ ==
  /\ z_raw \in ZRawDatas
  /\ \/ z_pred \in ZScalarPredictions
     \/ z_pred \in ZSequencePredictions
  /\ z_out = ZNotCalled
  /\ record = <<>>
  /\ input = <<>>
  /\ self_observation = "unset"
  /\ datacond = "unset"
  /\ score_type = "NoneScore"
  /\ prediction = NoPrediction
  /\ score = NoScore
  /\ launches = 0
  /\ last = [op |-> "construct", kind |-> "return", exc |-> "none"]

NextZ == compute

SpecZ == InitZ /\ [][NextZ]_vars

(***************************************************************************)
(* Properties                                                              *)
(***************************************************************************)
\* the observation lacks a required field, or units / current_unit differ
\* from "Mohm" / "nA" as strings
InvalidByValue(observation) ==
  \/ \E k \in TopKeys : k \notin DOMAIN observation
  \/ \E k \in PPKeys : k \notin DOMAIN observation["protocol_parameters"]
  \/ observation["units"].s # "Mohm"
  \/ observation["protocol_parameters"]["current_unit"].s # "nA"

\* C1: a validate_observation call raises ObservationError exactly when the
\* observation it is given lacks a required field or has units other than
\* "Mohm" or current_unit other than "nA" (string equality)
C1_RaisesExactlyWhenInvalid ==
  [][last'.op = "validate_observation"
     => ((last'.exc = "ObservationError") <=> InvalidByValue(record))]_vars

\* C2: while validate_observation has not succeeded on the instance (it
\* raised, or was not called), launch_model has not been invoked and neither
\* a prediction nor a Score has been produced
C2_NoModelRunWithoutValidation ==
  self_observation = "unset"
    => launches = 0 /\ prediction = NoPrediction /\ score = NoScore

\* validation rejects the observation and generate_prediction was attempted
C2_Witness ==
  /\ ValidationRaises(record)
  /\ self_observation = "unset"
  /\ last.op = "generate_prediction"
  /\ last.kind = "raise"
  /\ launches = 0

SamplesBelow(raw, p) == Cardinality({i \in 1..Len(raw) : raw[i] < p})
SamplesNotEqual(raw, p) == Cardinality({i \in 1..Len(raw) : raw[i] # p})

\* C4: for non-empty raw_data and a scalar prediction p that some sample
\* differs from, compute returns z with z*sqrt(n_u) = 2*s_plus - n_u, s_plus
\* the samples strictly below p and n_u the samples different from p
C4_SingleSampleZ ==
  (/\ z_out # ZNotCalled
   /\ IsScalarType(z_pred)
   /\ Len(z_raw) > 0
   /\ SamplesNotEqual(z_raw, z_pred.v) > 0)
    => /\ z_out.kind = "return"
       /\ z_out.value.kind = "float"
       /\ z_out.value.num = 2 * SamplesBelow(z_raw, z_pred.v)
                              - SamplesNotEqual(z_raw, z_pred.v)
       /\ z_out.value.den = SamplesNotEqual(z_raw, z_pred.v)

\* C5: when every sample equals the null value, compute surfaces the
\* statistic as undefined: it returns NaN or raises an undefined-statistic
\* condition, and returns no ordinary number
C5_UndefinedSurfaced ==
  (/\ z_out # ZNotCalled
   /\ IsScalarType(z_pred)
   /\ SamplesNotEqual(z_raw, z_pred.v) = 0)
    => \/ z_out.kind = "return" /\ z_out.value.kind = "nan"
       \/ z_out.kind = "raise" /\ z_out.exc = "UndefinedStatistic"

\* C6: with a prediction sequence as long as raw_data, compute returns the
\* value single-sample mode returns for the elementwise differences and
\* null value 0
C6_PairedEqualsSingleOnDifferences ==
  (/\ z_out # ZNotCalled
   /\ z_pred.type = "list"
   /\ Len(z_pred.v) = Len(z_raw))
    => /\ z_out.kind = "return"
       /\ z_out = ZScoreCompute([i \in 1..Len(z_raw) |-> z_raw[i] - z_pred.v[i]],
                                [type |-> "float", v |-> 0])

\* C7: after a successful validation score_type, standard_error and median
\* follow the data condition, and a compute_score call then returns a Score
\* of the class in score_type, built from that statistic and its hypothesis test
C7_ScoreFollowsDataCondition ==
  self_observation = "record" =>
    /\ datacond = "True" =>
         /\ score_type = "TScore"
         /\ "standard_error" \in DOMAIN record
         /\ "median" \notin DOMAIN record
    /\ datacond = "False" =>
         /\ score_type = "ZScore"
         /\ "median" \in DOMAIN record
         /\ "standard_error" \notin DOMAIN record
    /\ last.op = "compute_score" =>
         /\ last.kind = "return"
         /\ score.class = score_type
         /\ score.description.statistic = score.score
         /\ score.description.test =
              (IF datacond = "True" THEN "HtestAboutMeans" ELSE "HtestAboutMedians")
         /\ score.statistics.test = score.description.test

\* C8: a generate_prediction or compute_score call leaves the observation,
\* datacond and score_type as they were
C8_OnlyValidationSetsTestState ==
  [][last'.op \in {"generate_prediction", "compute_score"}
     => UNCHANGED <<record, self_observation, datacond, score_type>>]_vars

\* a Score was returned for a generated prediction on a validated instance
C8_Witness ==
  /\ last.op = "compute_score"
  /\ last.kind = "return"
  /\ prediction # NoPrediction
  /\ datacond = "True"

====
